---------------------------- MODULE Spec2Model ----------------------------
(***************************************************************************)
(* Dream journal backend: the resilient call gateway (makeAPICall), the    *)
(* image fan-out of POST /api/generate-images, the rate limiters, the      *)
(* story segmenter (extractStorySegments) and the dream store              *)
(* (services/database.js) behind the /api/dreams routes.                   *)
(*                                                                         *)
(* Each subsystem has its own specification over the shared variables:     *)
(*   SpecGateway   one makeAPICall invocation against an unreliable        *)
(*                 provider                                                *)
(*   SpecImages    one POST /api/generate-images request at a time, its    *)
(*                 three scene calls interleaved                           *)
(*   SpecRate      the general and the story limiter in front of           *)
(*                 /api/generate-title and /api/generate-story             *)
(*   SpecSegment   extractStorySegments on typed-in stories                *)
(*   SpecDb        create / update / favorite / delete of dreams, the      *)
(*                 database calls of one handler interleaved with others   *)
(*   SpecQuery     GET /api/dreams over stored dreams                      *)
(***************************************************************************)
EXTENDS Integers, Sequences, FiniteSets, TLC

VARIABLES
    gw,          \* the makeAPICall invocation under test (a call record)
    gwLog,       \* the provider's answers to that invocation, in order
    apiKey,      \* TRUE iff API_CONFIG.openai.apiKey is set
    imgPc,       \* POST /api/generate-images: "idle", "running", "responded"
    imgReq,      \* the request body of the running generate-images request
    scene,       \* scene index -> call record of its makeAPICall
    settled,     \* scene index -> the state of its imagePromise
    imgRes,      \* the response of the last generate-images request
    story,       \* the text handed to extractStorySegments (SpecSegment)
    segments,    \* what extractStorySegments returned for it, or NoSegments
    hitsGeneral, \* generalLimiter's store: caller key -> hits in its window
    hitsStory,   \* storyLimiter's store: caller key -> hits in its window
    admitted,    \* caller key -> requests storyLimiter passed on in its window
    rateRes,     \* how the last request of the current windows was answered
    dreams,      \* table Dream: id -> row, for the ids that exist
    images,      \* table DreamImage: dream id -> the rows with that dreamId
    analyses,    \* table DreamAnalysis: a set of rows
    nextId,      \* the next dream id to hand out
    ops,         \* request slot -> the /api/dreams request waiting on the database
    done,        \* the /api/dreams request answered last
    qRes,        \* the answer to the last GET /api/dreams
    genPc,       \* a generation endpoint: "idle", "calling", "responded"
    genReq,      \* the request that endpoint is serving or served last
    genRes,      \* its response
    genSent,     \* what the request body it sent to the provider asks for
    clock,       \* the server clock
    stats        \* the answer to the last GET /api/stats

gwVars == <<gw, gwLog>>
imgVars == <<apiKey, imgPc, imgReq, scene, settled, imgRes>>
segVars == <<story, segments>>
rateVars == <<hitsGeneral, hitsStory, admitted, rateRes>>
storeVars == <<dreams, images, analyses, nextId>>
dbVars == <<dreams, images, analyses, nextId, ops, done, qRes>>
genVars == <<genPc, genReq, genRes, genSent>>
statVars == <<clock, stats>>
vars == <<gw, gwLog, apiKey, imgPc, imgReq, scene, settled, imgRes, story, segments,
          hitsGeneral, hitsStory, admitted, rateRes,
          dreams, images, analyses, nextId, ops, done, qRes,
          genPc, genReq, genRes, genSent, clock, stats>>

-----------------------------------------------------------------------------
(* Bounds of the model *)

\* largest `retries` argument handed to makeAPICall in SpecGateway
MaxRetries == 6

-----------------------------------------------------------------------------
(* The generation provider as seen through fetch()                         *)

\* status 0 stands for a rejected fetch (timeout, connection reset)
NetworkFailure == 0

\* JSON bodies: of a 2xx answer the payload, of a non-2xx answer its
\* "message" member ("" when the body has none or is not JSON:
\* response.json().catch(() => ({})))
NoMessage == ""

Response(s, b) == [status |-> s, body |-> b]

ErrorStatuses == {304, 404, 429, 500}

ProviderResponses ==
    {Response(200, b) : b \in {"payloadA", "payloadB"}}
        \cup {Response(s, NoMessage) : s \in ErrorStatuses}
        \cup {Response(500, "overloaded"), Response(NetworkFailure, NoMessage)}

\* response.ok
Ok(r) == r.status >= 200 /\ r.status <= 299

-----------------------------------------------------------------------------
(* makeAPICall(url, options, retries = 3)                                  *)

DefaultRetries == 3

NoResult == [kind |-> "none", status |-> 0, body |-> ""]
Value(b) == [kind |-> "value", status |-> 200, body |-> b]
\* new Error(`API Error: ${status} - ${message}`), or the error fetch rejected with
Failure(s, m) == [kind |-> "error", status |-> s, body |-> m]

\* a call record: the loop variable i, where the invocation stands, the
\* fetches it has made, the delays it has slept and how it ended
NewCall(n) ==
    [retries |-> n, i |-> 0, pc |-> IF 0 < n THEN "fetch" ELSE "returned",
     calls |-> 0, waits |-> <<>>, result |-> NoResult]

RECURSIVE Pow(_, _)
Pow(b, e) == IF e = 0 THEN 1 ELSE b * Pow(b, e - 1)

Min(a, b) == IF a <= b THEN a ELSE b

DelayUncapped(i) == 1000 * Pow(2, i)

\* Math.min(1000 * Math.pow(2, i), 10000)
Delay(i) == Min(1000 * Pow(2, i), 10000)

\* await new Promise(resolve => setTimeout(resolve, delay))
Sleep(c) == [c EXCEPT !.pc = "sleep", !.waits = Append(@, Delay(c.i))]

CatchOffByOne(c, e) ==
    IF c.i = c.retries THEN [c EXCEPT !.pc = "thrown", !.result = e]
    ELSE Sleep(c)

\* catch (error) { if (i === retries - 1) throw error; ...delay... }
Catch(c, e) ==
    IF c.i = c.retries - 1 THEN [c EXCEPT !.pc = "thrown", !.result = e]
    ELSE Sleep(c)

ErrorMessage(r, fallback) == IF r.body = NoMessage THEN fallback ELSE r.body

\* the body of the try block once fetch has settled with r
FetchSettled(c, r) ==
    LET c1 == [c EXCEPT !.calls = @ + 1] IN
    IF r.status = NetworkFailure THEN Catch(c1, Failure(NetworkFailure, "fetch failed"))
    ELSE IF ~Ok(r) THEN
        IF r.status >= 400 /\ r.status < 500
        THEN \* thrown inside the try block, so the catch clause receives it
             Catch(c1, Failure(r.status, ErrorMessage(r, "Client error")))
        ELSE IF c.i < c.retries - 1 /\ (r.status >= 500 \/ r.status = 429)
        THEN Sleep(c1)
        ELSE Catch(c1, Failure(r.status, ErrorMessage(r, "Unknown error")))
    ELSE [c1 EXCEPT !.pc = "returned", !.result = Value(r.body)]

\* the timer fires: i++ and the loop test
TimerFired(c) ==
    [c EXCEPT !.i = @ + 1,
              !.pc = IF c.i + 1 < c.retries THEN "fetch" ELSE "returned"]

-----------------------------------------------------------------------------
(* extractStorySegments(story); a text is a sequence of one-character      *)
(* strings                                                                 *)

IsTerminal(ch) == ch \in {".", "!", "?"}
IsSpace(ch) == ch \in {" ", "\n"}

\* the first index at or after p whose character is not of the class
\* (terminal punctuation or not) that `terminal` names; Len(s) + 1 if none
RECURSIVE RunEnd(_, _, _)
RunEnd(s, p, terminal) ==
    IF p > Len(s) \/ IsTerminal(s[p]) # terminal THEN p
    ELSE RunEnd(s, p + 1, terminal)

\* story.match(/[^.!?]+[.!?]+/g) || [] from index p on: the leftmost match
\* starts at the first non-terminal character, takes the whole run of
\* non-terminal characters and then the whole run of terminal ones; a run of
\* non-terminal characters that reaches the end of the text matches nothing
RECURSIVE MatchSentences(_, _)
MatchSentences(s, p) ==
    LET a == RunEnd(s, p, TRUE)
        b == RunEnd(s, a, FALSE)
        c == RunEnd(s, b, TRUE)
    IN  IF a > Len(s) \/ b > Len(s) THEN <<>>
        ELSE <<SubSeq(s, a, c - 1)>> \o MatchSentences(s, c)

\* Array.prototype.slice(from, to) for 0 <= from, 0 <= to
Slice(seq, from, to) == SubSeq(seq, from + 1, Min(to, Len(seq)))

\* Array.prototype.join(' ')
RECURSIVE Join(_)
Join(seq) ==
    IF seq = <<>> THEN <<>>
    ELSE IF Len(seq) = 1 THEN seq[1]
    ELSE seq[1] \o <<" ">> \o Join(Tail(seq))

RECURSIVE TrimStart(_)
TrimStart(s) == IF s # <<>> /\ IsSpace(s[1]) THEN TrimStart(Tail(s)) ELSE s

RECURSIVE TrimEnd(_)
TrimEnd(s) ==
    IF s # <<>> /\ IsSpace(s[Len(s)]) THEN TrimEnd(SubSeq(s, 1, Len(s) - 1)) ELSE s

\* String.prototype.trim()
Trim(s) == TrimStart(TrimEnd(s))

TooFewOffByOne(totalSentences) == totalSentences < 2

\* totalSentences < 3
TooFew(totalSentences) == totalSentences < 3

ThirdRoundedUp(totalSentences) == (totalSentences + 2) \div 3

\* Math.floor(totalSentences / 3)
ThirdOf(totalSentences) == totalSentences \div 3

extractStorySegments(text) ==
    LET sentences == MatchSentences(text, 1)
        totalSentences == Len(sentences)
        third == ThirdOf(totalSentences)
    IN  IF TooFew(totalSentences)
        THEN [beginning |-> text, middle |-> text, ending |-> text]
        ELSE [beginning |-> Trim(Join(Slice(sentences, 0, third))),
              middle |-> Trim(Join(Slice(sentences, third, third * 2))),
              ending |-> Trim(Join(Slice(sentences, third * 2, totalSentences)))]

-----------------------------------------------------------------------------
(* SpecGateway: one invocation of makeAPICall                              *)

GwCall(n) ==
    /\ gw.pc \in {"returned", "thrown"}
    /\ gw' = NewCall(n)
    /\ gwLog' = <<>>

GwFetch(r) ==
    /\ gw.pc = "fetch"
    /\ gw' = FetchSettled(gw, r)
    /\ gwLog' = Append(gwLog, r)

GwTimer ==
    /\ gw.pc = "sleep"
    /\ gw' = TimerFired(gw)
    /\ UNCHANGED gwLog

-----------------------------------------------------------------------------
(* POST /api/generate-images                                               *)

Null == "null"
NoPrompt == [segment |-> <<>>, instruction |-> "", style |-> ""]

Tones == {"whimsical", "mystical", "adventurous", "gentle", "mysterious", "comedy"}

\* stylePrompts[tone] || stylePrompts.whimsical, named by its tone
BaseStyle(tone) == IF tone \in Tones THEN tone ELSE "whimsical"

\* the scenes array built from the segments of the story
Scenes(req) ==
    LET seg == extractStorySegments(req.story)
        style == BaseStyle(req.tone)
    IN  << [name |-> "Scene 1", description |-> "Beginning of the story",
            prompt |-> [segment |-> seg.beginning, instruction |-> "start",
                        style |-> style]],
           [name |-> "Scene 2", description |-> "Middle of the story",
            prompt |-> [segment |-> seg.middle, instruction |-> "conflict",
                        style |-> style]],
           [name |-> "Scene 3", description |-> "End of the story",
            prompt |-> [segment |-> seg.ending, instruction |-> "resolution",
                        style |-> style]] >>

\* response.data of an images/generations payload, as the list of its urls
DataUrls(body) ==
    CASE body = "payloadA" -> <<"https://img/A">>
      [] body = "payloadB" -> <<"https://img/B">>
      [] OTHER -> <<>>

ImageResponses ==
    {Response(200, "payloadA"), Response(200, "emptyData"), Response(404, NoMessage),
     Response(500, NoMessage), Response(NetworkFailure, NoMessage)}

Pending == [state |-> "pending"]
Fulfilled(v) == [state |-> "fulfilled", value |-> v]
Rejected == [state |-> "rejected"]

FailedScene(sc) ==
    [url |-> Null, scene |-> sc.name, description |-> sc.description,
     prompt |-> NoPrompt, error |-> TRUE]

SceneSettledNoCatch(sc, c) ==
    IF c.pc = "returned" /\ DataUrls(c.result.body) # <<>>
    THEN Fulfilled([url |-> DataUrls(c.result.body)[1], scene |-> sc.name,
                    description |-> sc.description, prompt |-> sc.prompt,
                    error |-> FALSE])
    ELSE Rejected

\* the async callback of scenes.map once its makeAPICall has ended as c:
\* response.data[0].url of an empty data array throws inside the try block
SceneSettled(sc, c) ==
    IF c.pc = "returned" /\ DataUrls(c.result.body) # <<>>
    THEN Fulfilled([url |-> DataUrls(c.result.body)[1], scene |-> sc.name,
                    description |-> sc.description, prompt |-> sc.prompt,
                    error |-> FALSE])
    ELSE Fulfilled(FailedScene(sc))

PromiseRace(ps) ==
    IF \E s \in DOMAIN ps : ps[s].state = "rejected" THEN Rejected
    ELSE IF \E s \in DOMAIN ps : ps[s].state = "fulfilled"
    THEN Fulfilled([s \in DOMAIN ps |->
                      IF ps[s].state = "fulfilled" THEN ps[s].value ELSE Null])
    ELSE Pending

\* Promise.all(imagePromises): rejected once one promise is rejected,
\* fulfilled with all the values once all are fulfilled
PromiseAll(ps) ==
    IF \E s \in DOMAIN ps : ps[s].state = "rejected" THEN Rejected
    ELSE IF \A s \in DOMAIN ps : ps[s].state = "fulfilled"
    THEN Fulfilled([s \in DOMAIN ps |-> ps[s].value])
    ELSE Pending

NoImages == <<>>
HttpResponse(st, imgs) == [status |-> st, images |-> imgs]

\* !story || story.trim().length === 0
Blank(text) == Trim(text) = <<>>

InFlight(s) == scene[s].pc \in {"fetch", "sleep"}

\* where the handler stands once the scene promises are ps
Joined(ps) ==
    LET all == PromiseAll(ps) IN
    IF all.state = "fulfilled" THEN [pc |-> "responded", res |-> HttpResponse(200, all.value)]
    ELSE IF all.state = "rejected" THEN [pc |-> "responded", res |-> HttpResponse(500, NoImages)]
    ELSE [pc |-> "running", res |-> imgRes]

\* the request arrives: validation, the key check, and the three fetches issued
ImgRequest(body) ==
    /\ imgPc \in {"idle", "responded"}
    /\ \A s \in 1..3 : ~InFlight(s)
    /\ imgReq' = body
    /\ IF Blank(body.story)
       THEN /\ imgPc' = "responded"
            /\ imgRes' = HttpResponse(400, NoImages)
            /\ scene' = [s \in 1..3 |-> NewCall(0)]
            /\ settled' = [s \in 1..3 |-> Pending]
       ELSE IF ~apiKey
       THEN /\ imgPc' = "responded"
            /\ imgRes' = HttpResponse(500, NoImages)
            /\ scene' = [s \in 1..3 |-> NewCall(0)]
            /\ settled' = [s \in 1..3 |-> Pending]
       ELSE /\ imgPc' = "running"
            /\ imgRes' = HttpResponse(0, NoImages)
            /\ scene' = [s \in 1..3 |-> NewCall(DefaultRetries)]
            /\ settled' = [s \in 1..3 |-> Pending]
    /\ UNCHANGED apiKey

\* the fetch of scene s settles with r; when that ends its makeAPICall the
\* scene promise settles, and when that settles Promise.all the handler answers
SceneFetch(s, r) ==
    /\ scene[s].pc = "fetch"
    /\ LET c == FetchSettled(scene[s], r)
           ps == [settled EXCEPT ![s] =
                     IF c.pc \in {"returned", "thrown"}
                     THEN SceneSettled(Scenes(imgReq)[s], c) ELSE Pending]
       IN  /\ scene' = [scene EXCEPT ![s] = c]
           /\ settled' = ps
           /\ IF imgPc = "running"
              THEN /\ imgPc' = Joined(ps).pc
                   /\ imgRes' = Joined(ps).res
              ELSE UNCHANGED <<imgPc, imgRes>>
    /\ UNCHANGED <<apiKey, imgReq>>

SceneTimer(s) ==
    /\ scene[s].pc = "sleep"
    /\ scene' = [scene EXCEPT ![s] = TimerFired(scene[s])]
    /\ UNCHANGED <<apiKey, imgPc, imgReq, settled, imgRes>>

\* request bodies of generate-images
ImgStories ==
    { <<>>, <<" ">>, <<"a", ".">>,
      <<"a", ".", " ", "b", "!", " ", "c", "?">> }

ImgBodies == [story : ImgStories, tone : {"mystical", "noir"}]

-----------------------------------------------------------------------------
(* SpecSegment: extractStorySegments on typed-in stories                   *)

NoSegments == [beginning |-> <<"-">>, middle |-> <<"-">>, ending |-> <<"-">>]

\* number of whole sentences a typed story may hold
MaxSentences == 10
\* number of single characters typed besides
MaxLoose == 3

Alphabet == {"a", ".", "?", " "}

Count(seq, x) == Cardinality({k \in 1..Len(seq) : seq[k] = x})

\* the sentence "b!" is typed only as a whole
TypeSentence ==
    /\ segments = NoSegments
    /\ Count(story, "b") < MaxSentences
    /\ story' = story \o <<"b", "!">>
    /\ UNCHANGED segments

TypeChar(ch) ==
    /\ segments = NoSegments
    /\ Len(story) - 2 * Count(story, "b") < MaxLoose
    /\ story' = Append(story, ch)
    /\ UNCHANGED segments

Segment ==
    /\ segments = NoSegments
    /\ segments' = extractStorySegments(story)
    /\ UNCHANGED story

-----------------------------------------------------------------------------
(* The rate limiters (express-rate-limit 6 with its memory store: one hit  *)
(* counter per key, all counters of a limiter cleared when its window ends)*)

\* req.ip, the default key
Callers == {"ip1", "ip2"}

\* callers other than the busiest send at most this many requests per
\* general window
LightLoad == 7
\* requests one caller sends to the story routes per story window
MaxStoryHits == 7

\* Math.ceil(a / b) for positive integers
Ceil(a, b) == (a + b - 1) \div b

\* createRateLimiter(windowMs, max, message)
createRateLimiter(windowMs, max) ==
    [windowMs |-> windowMs, max |-> max, retryAfter |-> Ceil(windowMs, 1000)]

\* with RATE_LIMIT_WINDOW_MS and RATE_LIMIT_MAX_REQUESTS unset
generalLimiter == createRateLimiter(15 * 60 * 1000, 100)

\* a limiter that lets 10 requests through per minute
LimiterOfTen == createRateLimiter(60 * 1000, 10)

storyLimiter == createRateLimiter(60 * 1000, 5)

StoryRoutes == {"generate-title", "generate-story"}
Routes == StoryRoutes \cup {"health"}

\* the limiter's test on the incremented counter: totalHits > max
OverLimit(totalHits, limiter) == totalHits > limiter.max

NoRate == [key |-> "", route |-> "", by |-> "", status |-> 0, retryAfter |-> 0]

\* res.status(429).json({error, retryAfter: Math.ceil(windowMs / 1000)})
TooMany(k, route, by, limiter) ==
    [key |-> k, route |-> route, by |-> by, status |-> 429,
     retryAfter |-> limiter.retryAfter]

\* next() of the last limiter: the route handler takes the request
PassedOn(k, route) ==
    [key |-> k, route |-> route, by |-> "handler", status |-> 200, retryAfter |-> 0]

\* a request of caller k to a route: app.use(generalLimiter), then the
\* route's own limiter
RateRequest(k, route) ==
    /\ hitsGeneral[k] <= generalLimiter.max
    /\ hitsGeneral[k] < LightLoad
         \/ \A j \in Callers \ {k} : hitsGeneral[j] <= LightLoad
    /\ route \in StoryRoutes => hitsStory[k] < MaxStoryHits
    /\ hitsGeneral' = [hitsGeneral EXCEPT ![k] = @ + 1]
    /\ IF OverLimit(hitsGeneral[k] + 1, generalLimiter)
       THEN /\ rateRes' = TooMany(k, route, "generalLimiter", generalLimiter)
            /\ UNCHANGED <<hitsStory, admitted>>
       ELSE IF route \in StoryRoutes
       THEN /\ hitsStory' = [hitsStory EXCEPT ![k] = @ + 1]
            /\ IF OverLimit(hitsStory[k] + 1, storyLimiter)
               THEN /\ rateRes' = TooMany(k, route, "storyLimiter", storyLimiter)
                    /\ UNCHANGED admitted
               ELSE /\ rateRes' = PassedOn(k, route)
                    /\ admitted' = [admitted EXCEPT ![k] = @ + 1]
       ELSE /\ rateRes' = PassedOn(k, route)
            /\ UNCHANGED <<hitsStory, admitted>>

\* the 15 minutes of generalLimiter's window are over
GeneralWindowEnds ==
    /\ hitsGeneral' = [k \in Callers |-> 0]
    /\ rateRes' = NoRate
    /\ UNCHANGED <<hitsStory, admitted>>

\* the 60 seconds of storyLimiter's window are over
StoryWindowEnds ==
    /\ hitsStory' = [k \in Callers |-> 0]
    /\ admitted' = [k \in Callers |-> 0]
    /\ rateRes' = NoRate
    /\ UNCHANGED hitsGeneral

-----------------------------------------------------------------------------
(* The dream store (services/database.js over prisma/schema.prisma)        *)

\* dreams ever created
MaxDreams == 1
\* analyses ever saved
MaxAnalyses == 1
\* /api/dreams requests served at the same time
MaxOps == 2

Users == {"u1", "u2"}
\* a request without a database user (no token)
Guest == "guest"

\* a nullable column or JSON value: None is null, Some(v) the value v
None == <<>>
Some(v) == <<v>>

\* texts are sequences of one-character strings
TextFly == <<"F", "l", "y">>
TextSea == <<"s", "e", "a">>
TextAFly == <<"a", " ", "f", "l", "y">>
TextSky == <<"s", "k", "y">>

\* new Date(), the day the model runs on
Today == 3

\* new Date(string) as a day number; None is an Invalid Date
ParseDate(str) ==
    CASE str = "2025-01-01" -> Some(1)
      [] str = "2025-01-02" -> Some(2)
      [] str = "2025-01-03" -> Some(3)
      [] OTHER -> None

\* image objects as clients send them; ImgFailed is a failed scene as
\* generate-images returns it
ImgA == [url |-> "https://img/A", scene |-> "Scene 1",
         description |-> "Beginning of the story", prompt |-> "p"]
ImgB == [url |-> "https://img/B", scene |-> "Scene 1",
         description |-> "Beginning of the story"]
ImgFailed == [url |-> Null, scene |-> "Scene 2",
              description |-> "Middle of the story", error |-> TRUE]

\* key is a member of the JSON body and not undefined
Has(body, key) == key \in DOMAIN body

\* request bodies of POST /api/dreams
CreateBodies ==
    { [title |-> Some(TextFly), dreamText |-> Some(TextSea), date |-> "2025-01-01",
       tags |-> {TextSea}, mood |-> Some("happy"), lucidity |-> Some(3),
       isFavorite |-> TRUE, images |-> <<ImgA>>],
      [dreamText |-> Some(TextFly)],
      [dreamText |-> Some(TextSea), story |-> Some(TextAFly), date |-> "2025-01-02",
       tags |-> {TextSea, TextSky}, mood |-> Some("calm"), lucidity |-> Some(9)],
      [dreamText |-> Some(TextSea), images |-> <<ImgA, ImgFailed>>] }

\* the bodies sent in SpecDb
DbCreateBodies ==
    {b \in CreateBodies : Has(b, "images") \/ DOMAIN b = {"dreamText"}}

\* request bodies of PUT /api/dreams/:id
UpdateBodies ==
    { [title |-> Some(TextSea)],
      [images |-> <<ImgB>>, title |-> None],
      [images |-> <<ImgFailed>>] }

\* request bodies of PUT /api/dreams/:id sent one request at a time
SerialUpdateBodies ==
    UpdateBodies \cup
    { [lucidity |-> Some(0)],
      [mood |-> None, story |-> Some(TextAFly), tags |-> {}, lucidity |-> None],
      [dreamText |-> None, title |-> Some(TextSea)],
      [images |-> <<>>, dreamText |-> Some(TextFly), date |-> "2025-01-03",
       isFavorite |-> TRUE],
      [title |-> None, date |-> "2025-01-03"] }

\* DreamImage.url, scene and description are String, not String?: a row
\* without one of them is refused
ValidImages(imgs) ==
    \A k \in 1..Len(imgs) :
        \A col \in {"url", "scene", "description"} :
            Has(imgs[k], col) /\ imgs[k][col] # Null

\* dreamData of POST /api/dreams
DreamData(body) ==
    [title |-> IF Has(body, "title") THEN body.title ELSE None,
     dreamText |-> IF Has(body, "dreamText") THEN body.dreamText ELSE None,
     date |-> IF Has(body, "date") /\ body.date # ""
              THEN ParseDate(body.date) ELSE Some(Today),
     story |-> IF Has(body, "story") THEN body.story ELSE None,
     tags |-> IF Has(body, "tags") THEN body.tags ELSE {},
     mood |-> IF Has(body, "mood") THEN body.mood ELSE None,
     lucidity |-> IF Has(body, "lucidity") THEN body.lucidity ELSE None,
     images |-> IF Has(body, "images") THEN body.images ELSE <<>>,
     isFavorite |-> IF Has(body, "isFavorite") THEN body.isFavorite ELSE FALSE]

\* prisma.dream.create accepts the data
CreateValid(data) ==
    /\ data.dreamText # None
    /\ data.date # None
    /\ ValidImages(data.images)

\* the row prisma.dream.create inserts
NewDream(userId, data, id) ==
    [userId |-> userId, title |-> data.title, dreamText |-> data.dreamText[1],
     date |-> data.date[1], story |-> data.story, tags |-> data.tags,
     mood |-> data.mood, lucidity |-> data.lucidity,
     isFavorite |-> data.isFavorite, createdAt |-> id]

UpdatableKeys ==
    {"title", "dreamText", "story", "storyTone", "storyLength", "tags", "mood",
     "lucidity", "images"}

Restrict(f, keys) == [k \in DOMAIN f \cap keys |-> f[k]]

\* images.map(img => ({ url, scene, description, prompt }))
ImageRows(imgs) ==
    [k \in 1..Len(imgs) |->
        Restrict(imgs[k], {"url", "scene", "description", "prompt"})]

\* an updates object from which null members are deleted as well
UpdatesWithoutNull(body) ==
    Restrict(body, {k \in UpdatableKeys \cap DOMAIN body :
                       k \in {"title", "story", "mood", "lucidity"} => body[k] # None})

\* the updates object of PUT /api/dreams/:id, undefined members deleted
Updates(body) == Restrict(body, UpdatableKeys)

\* const { images, ...mainUpdates } = updates
MainUpdates(updates) == Restrict(updates, DOMAIN updates \ {"images"})

\* prisma.dream.update accepts the data
UpdateValid(updates) ==
    /\ Has(updates, "dreamText") => updates.dreamText # None
    /\ Has(updates, "images") => ValidImages(updates.images)

\* where: { id: dreamId, userId }
Owned(d, u) == d \in DOMAIN dreams /\ dreams[d].userId = u

\* the columns of a row after data is written over it
Written(row, data) ==
    [k \in DOMAIN row |->
        IF k \in DOMAIN data
        THEN IF k = "dreamText" THEN data[k][1] ELSE data[k]
        ELSE row[k]]

IdleOp == [kind |-> "none", pc |-> "idle", user |-> Guest, dream |-> 0,
           updates |-> <<>>, read |-> FALSE]

\* the answer to a request: its route and the HTTP status
Done(kind, status) == [kind |-> kind, status |-> status]

OpIds == 1..MaxOps
Free(o) == ops[o].pc = "idle"
\* a request takes the lowest free slot
Takes(o) == Free(o) /\ \A p \in 1..(o - 1) : ~Free(p)

\* the request in slot o is answered and the slot is free again
Answer(o, answer) ==
    /\ ops' = [ops EXCEPT ![o] = IdleOp]
    /\ done' = answer

\* POST /api/dreams: createDream, or the guest answer
PostDream(u, body) ==
    /\ nextId <= MaxDreams
    /\ LET data == DreamData(body) IN
       IF u = Guest
       THEN /\ done' = Done("create", 200)
            /\ UNCHANGED storeVars
       ELSE IF ~CreateValid(data)
       THEN /\ done' = Done("create", 500)
            /\ UNCHANGED storeVars
       ELSE /\ dreams' = (nextId :> NewDream(u, data, nextId)) @@ dreams
            /\ images' = [images EXCEPT ![nextId] = ImageRows(data.images)]
            /\ nextId' = nextId + 1
            /\ done' = Done("create", 200)
            /\ UNCHANGED analyses
    /\ UNCHANGED <<ops, qRes>>

\* prisma.dream.update of updateDream: one statement
DreamUpdate(o, u, d, updates) ==
    IF Owned(d, u) /\ UpdateValid(updates)
    THEN /\ dreams' = [dreams EXCEPT ![d] = Written(@, MainUpdates(updates))]
         /\ images' = IF Has(updates, "images")
                      THEN [images EXCEPT ![d] = @ \o ImageRows(updates.images)]
                      ELSE images
         /\ Answer(o, Done("update", 200))
    ELSE /\ Answer(o, Done("update", 500))
         /\ UNCHANGED <<dreams, images>>

\* PUT /api/dreams/:id up to the first database call that updateDream
\* awaits: prisma.dreamImage.deleteMany when images are supplied, else
\* prisma.dream.update
PutDream(o, u, d, body) ==
    /\ Takes(o)
    /\ LET updates == Updates(body) IN
       IF Has(updates, "images")
       THEN /\ images' = [images EXCEPT ![d] = <<>>]
            /\ ops' = [ops EXCEPT ![o] =
                  [kind |-> "update", pc |-> "update", user |-> u, dream |-> d,
                   updates |-> updates, read |-> FALSE]]
            /\ UNCHANGED <<dreams, done>>
       ELSE DreamUpdate(o, u, d, updates)
    /\ UNCHANGED <<analyses, nextId, qRes>>

\* updateDream goes on after deleteMany: prisma.dream.update
PutDreamUpdate(o) ==
    /\ ops[o].pc = "update"
    /\ DreamUpdate(o, ops[o].user, ops[o].dream, ops[o].updates)
    /\ UNCHANGED <<analyses, nextId, qRes>>

\* PATCH /api/dreams/:id/favorite up to the findFirst of toggleDreamFavorite
PatchFavorite(o, u, d) ==
    /\ Takes(o)
    /\ IF ~Owned(d, u)
       THEN Answer(o, Done("toggle", 404))
       ELSE /\ ops' = [ops EXCEPT ![o] =
                  [kind |-> "toggle", pc |-> "toggle", user |-> u, dream |-> d,
                   updates |-> <<>>, read |-> dreams[d].isFavorite]]
            /\ UNCHANGED done
    /\ UNCHANGED <<storeVars, qRes>>

\* toggleDreamFavorite goes on: prisma.dream.update with !dream.isFavorite
PatchFavoriteUpdate(o) ==
    /\ ops[o].pc = "toggle"
    /\ LET u == ops[o].user
           d == ops[o].dream
       IN  IF Owned(d, u)
           THEN /\ dreams' = [dreams EXCEPT ![d].isFavorite = ~ops[o].read]
                /\ Answer(o, Done("toggle", 200))
           ELSE /\ Answer(o, Done("toggle", 500))
                /\ UNCHANGED dreams
    /\ UNCHANGED <<images, analyses, nextId, qRes>>

\* DELETE /api/dreams/:id: prisma.dream.delete, onDelete: Cascade
DeleteDream(u, d) ==
    /\ IF Owned(d, u)
       THEN /\ dreams' = [x \in DOMAIN dreams \ {d} |-> dreams[x]]
            /\ images' = [images EXCEPT ![d] = <<>>]
            /\ analyses' = {a \in analyses : a.dreamId # d}
            /\ done' = Done("delete", 200)
       ELSE /\ done' = Done("delete", 500)
            /\ UNCHANGED <<dreams, images, analyses>>
    /\ UNCHANGED <<nextId, ops, qRes>>

\* @default(cuid()): an id no stored DreamAnalysis has
NewAnalysisId ==
    LET ids == {a.id : a \in analyses} IN
    IF ids = {} THEN 1 ELSE 1 + CHOOSE m \in ids : \A k \in ids : k <= m

\* res.json({ analysis, themes, emotions, saved: true, analysisId })
AnalysisSaved(id) ==
    [kind |-> "analyze", status |-> 200, saved |-> TRUE, analysisId |-> id]

\* res.json({ analysis, saved: false })
AnalysisUnsaved == [kind |-> "analyze", status |-> 200, saved |-> FALSE]

\* createDreamAnalysis(dreamId, userId, ...) at the end of a successful
\* POST /api/analyze-dream with a database user and a dreamId; the foreign
\* key to Dream.id refuses a dreamId that does not exist
SaveAnalysis(u, d) ==
    /\ Cardinality(analyses) < MaxAnalyses
    /\ IF d \in DOMAIN dreams
       THEN /\ analyses' = analyses \cup
                  {[id |-> NewAnalysisId, dreamId |-> d, userId |-> u]}
            /\ done' = AnalysisSaved(NewAnalysisId)
       ELSE /\ done' = Done("analyze", 500)
            /\ UNCHANGED analyses
    /\ UNCHANGED <<dreams, images, nextId, ops, qRes>>

\* req.body.dreamId when the body has none
NoDreamId == 0

\* response.choices[0].message.content of a payload; None when the payload
\* has no choices, which throws a TypeError
Content(body) == IF body = "payloadA" THEN Some("text") ELSE None

\* the handler saves whenever a dream id is given
FinishAnalysisForAnyone(u, dreamId, content) ==
    IF content = None
    THEN /\ done' = Done("analyze", 500)
         /\ UNCHANGED <<storeVars, ops, qRes>>
    ELSE IF dreamId # NoDreamId
    THEN SaveAnalysis(u, dreamId)
    ELSE /\ done' = AnalysisUnsaved
         /\ UNCHANGED <<storeVars, ops, qRes>>

\* POST /api/analyze-dream once makeAPICall has ended: content is the
\* analysis text, or None when the call threw or the payload had no text
FinishAnalysis(u, dreamId, content) ==
    IF content = None
    THEN /\ done' = Done("analyze", 500)
         /\ UNCHANGED <<storeVars, ops, qRes>>
    ELSE IF u # Guest /\ dreamId # NoDreamId
    THEN SaveAnalysis(u, dreamId)
    ELSE /\ done' = AnalysisUnsaved
         /\ UNCHANGED <<storeVars, ops, qRes>>

-----------------------------------------------------------------------------
(* The dream query: GET /api/dreams and getDreamsByUser                    *)

\* dreams in the store when queries are made
MaxStored == 2

\* an object without members; spreading false, "" or undefined adds nothing
EmptyObj == [k \in {} |-> 0]

\* { ...parts[1], ...parts[2], ... }: a later member replaces an earlier
\* one of the same key
RECURSIVE ObjectOf(_)
ObjectOf(parts) ==
    IF parts = <<>> THEN EmptyObj
    ELSE parts[Len(parts)] @@ ObjectOf(SubSeq(parts, 1, Len(parts) - 1))

\* ...(cond && obj)
When(cond, obj) == IF cond THEN obj ELSE EmptyObj

\* a parameter is there and not the empty string; search and tags are
\* kept as sequences of characters, the other parameters as strings
Given(query, key) == Has(query, key) /\ query[key] # ""
GivenText(query, key) == Has(query, key) /\ query[key] # <<>>

NaN == None

\* parseInt of the page and limit parameters
parseInt(str) ==
    CASE str = "0" -> Some(0)
      [] str = "1" -> Some(1)
      [] str = "2" -> Some(2)
      [] str = "3" -> Some(3)
      [] OTHER -> NaN

\* tags.split(',')
RECURSIVE Split(_)
Split(str) ==
    IF \E k \in 1..Len(str) : str[k] = ","
    THEN LET k == CHOOSE k \in 1..Len(str) :
                      str[k] = "," /\ \A j \in 1..(k - 1) : str[j] # ","
         IN  <<SubSeq(str, 1, k - 1)>> \o Split(SubSeq(str, k + 1, Len(str)))
    ELSE <<str>>

\* the options GET /api/dreams hands to getDreamsByUser; a parameter that
\* was not sent is undefined and left out
Options(query) ==
    LET page == IF Has(query, "page") THEN parseInt(query.page) ELSE Some(1)
        limit == IF Has(query, "limit") THEN parseInt(query.limit) ELSE Some(20)
    IN  [skip |-> IF page = NaN \/ limit = NaN THEN NaN
                  ELSE Some((page[1] - 1) * limit[1]),
         take |-> limit,
         orderBy |-> IF Has(query, "orderBy") THEN query.orderBy ELSE "createdAt",
         order |-> IF Has(query, "order") THEN query.order ELSE "desc",
         favoritesOnly |-> Has(query, "favoritesOnly") /\ query.favoritesOnly = "true"]
        @@ Restrict(query, {"search", "startDate", "endDate", "mood"})
        @@ When(GivenText(query, "tags"), [tags |-> Split(query.tags)])

\* the where object of getDreamsByUser
Where(userId, o) ==
    ObjectOf(<<
        [userId |-> [equals |-> userId]],
        When(o.favoritesOnly, [isFavorite |-> [equals |-> TRUE]]),
        When(GivenText(o, "search"), [OR |-> [contains |-> o.search]]),
        When(GivenText(o, "tags"), [tags |-> [hasSome |-> o.tags]]),
        When(Given(o, "startDate"), [date |-> [gte |-> ParseDate(o.startDate)]]),
        When(Given(o, "endDate"), [date |-> [lte |-> ParseDate(o.endDate)]]),
        When(Given(o, "mood"), [mood |-> [equals |-> o.mood]]) >>)

\* mode: 'insensitive'
Lower(ch) ==
    CASE ch = "F" -> "f"
      [] ch = "L" -> "l"
      [] ch = "Y" -> "y"
      [] OTHER -> ch

LowerText(text) == [k \in 1..Len(text) |-> Lower(text[k])]

\* contains: sub occurs in text, letter case apart
Contains(text, sub) ==
    \E k \in 0..(Len(text) - Len(sub)) :
        LowerText(SubSeq(text, k + 1, k + Len(sub))) = LowerText(sub)

\* the columns searched, a null column as no text
SearchedTexts(row) ==
    {row.dreamText} \cup {row[col][1] : col \in {c \in {"story", "title"} : row[c] # None}}

\* the row passes the condition where[key]
Holds(row, key, cond) ==
    CASE key = "OR" -> \E text \in SearchedTexts(row) : Contains(text, cond.contains)
      [] key = "tags" -> \E k \in 1..Len(cond.hasSome) : cond.hasSome[k] \in row.tags
      [] key = "date" -> IF Has(cond, "gte") THEN row.date >= cond.gte[1]
                         ELSE row.date <= cond.lte[1]
      [] key = "mood" -> row.mood = Some(cond.equals)
      [] OTHER -> row[key] = cond.equals

\* the ids of the rows that pass every condition of where
Matching(where) ==
    {d \in DOMAIN dreams : \A key \in DOMAIN where : Holds(dreams[d], key, where[key])}

\* the scalar columns of Dream, the ones orderBy may name
SortFields ==
    {"id", "userId", "title", "dreamText", "date", "story", "storyTone",
     "storyLength", "hasAudio", "audioUrl", "audioDuration", "isPrivate",
     "isFavorite", "mood", "lucidity", "createdAt", "updatedAt"}

\* Prisma accepts the arguments of findMany: no Invalid Date, skip and take
\* integers, skip not negative, orderBy a column and order asc or desc
ValidQuery(where, o) ==
    /\ Has(where, "date") => \A op \in DOMAIN where.date : where.date[op] # None
    /\ o.skip # NaN /\ o.take # NaN
    /\ o.skip # NaN => o.skip[1] >= 0
    /\ o.orderBy \in SortFields
    /\ o.order \in {"asc", "desc"}

\* the orders in which the database may return ids under orderBy: rows with
\* equal keys come in any order
Sorted(ids, field, order) ==
    {seq \in [1..Cardinality(ids) -> ids] :
        /\ \A i, j \in DOMAIN seq : i # j => seq[i] # seq[j]
        /\ \A i, j \in DOMAIN seq : i < j =>
              IF order = "asc"
              THEN dreams[seq[i]][field] <= dreams[seq[j]][field]
              ELSE dreams[seq[i]][field] >= dreams[seq[j]][field]}

\* a page that always starts at the first row
PageFromStart(seq, skip, take) == SubSeq(seq, 1, Min(take, Len(seq)))

\* skip and take of findMany
Page(seq, skip, take) == SubSeq(seq, skip + 1, Min(skip + take, Len(seq)))

QueryResult(u, query, status, ids, total, hasMore) ==
    [user |-> u, query |-> query, status |-> status, dreams |-> ids,
     total |-> total, hasMore |-> hasMore]

\* the answers getDreamsByUser and the handler of GET /api/dreams can give
getDreamsByUser(userId, query) ==
    LET o == Options(query)
        where == Where(userId, o)
    IN  IF ~ValidQuery(where, o)
        THEN {QueryResult(userId, query, 500, <<>>, 0, FALSE)}
        ELSE LET total == Cardinality(Matching(where)) IN
             {QueryResult(userId, query, 200, Page(seq, o.skip[1], o.take[1]),
                          total, o.skip[1] + o.take[1] < total) :
                 seq \in Sorted(Matching(where), o.orderBy, o.order)}

\* a handler that asks the store whether or not a database user is attached
GetDreamsUnguarded(u, query) ==
    /\ qRes' \in getDreamsByUser(u, query)
    /\ UNCHANGED <<storeVars, ops, done>>

\* the handler of GET /api/dreams; u is req.dbUser, Guest when none is
\* attached
GetDreams(u, query) ==
    /\ qRes' \in IF u = Guest
                 THEN {QueryResult(u, query, 200, <<>>, 0, FALSE)}
                 ELSE getDreamsByUser(u, query)
    /\ UNCHANGED <<storeVars, ops, done>>

\* the Authorization header: absent, a token the identity provider accepts,
\* or one it rejects
Credentials == {"none", "valid", "invalid"}

Unauthorized == "unauthorized"

\* verifyToken: req.user for the token of user u, Guest for null, Unauthorized
\* when the request is answered 401; firebase says auth.verifyIdToken is
\* available
verifyToken(cred, firebase, u) ==
    IF cred = "none" THEN Guest
    ELSE IF ~firebase THEN Guest
    ELSE IF cred = "valid" THEN u
    ELSE Unauthorized

\* attachDbUser: req.dbUser; found says findOrCreateUser did not throw
attachDbUser(user, found) ==
    IF user # Guest /\ found THEN user ELSE Guest

\* GET /api/dreams through verifyToken and attachDbUser
ListDreams(cred, firebase, found, u, query) ==
    LET user == verifyToken(cred, firebase, u) IN
    IF user = Unauthorized
    THEN /\ qRes' = QueryResult(Guest, query, 401, <<>>, 0, FALSE)
         /\ UNCHANGED <<storeVars, ops, done>>
    ELSE GetDreams(attachDbUser(user, found), query)

\* a parameter left out or sent with one of vals
Opt(key, vals) == {EmptyObj} \cup {key :> v : v \in vals}

\* query strings that filter
FilterQueries ==
    {a @@ b @@ c @@ d @@ e @@ f :
        a \in Opt("search", {<<"f", "L", "y">>}),
        b \in Opt("tags", {TextSky, TextSky \o <<",">> \o TextSea}),
        c \in Opt("mood", {"happy"}),
        d \in Opt("favoritesOnly", {"true", "false"}),
        e \in Opt("startDate", {"2025-01-02", "2025-01-03", "never"}),
        f \in Opt("endDate", {"2025-01-01", "2025-01-02", "never"})}

\* query strings that page and sort
PageQueries ==
    {a @@ b @@ c @@ d :
        a \in Opt("page", {"1", "2", "0"}),
        b \in Opt("limit", {"1", "2", "x"}),
        c \in Opt("orderBy", {"date", "sortKey"}),
        d \in Opt("order", {"asc"})}

Queries == FilterQueries \cup PageQueries

\* the rows POST /api/dreams can have stored
StoredDreams ==
    {ud \in Users \X {DreamData(b) : b \in CreateBodies} : CreateValid(ud[2])}

-----------------------------------------------------------------------------
(* The generation endpoints besides generate-images: transcribe,           *)
(* generate-title, generate-story, analyze-dream and text-to-speech        *)

GenOps ==
    {"transcribe", "generate-title", "generate-story", "analyze-dream",
     "text-to-speech"}

\* the endpoints that reach the provider through makeAPICall; transcribe
\* and text-to-speech call fetch themselves
UsesGateway(op) == op \in {"generate-title", "generate-story", "analyze-dream"}

\* !API_CONFIG.openai.apiKey
KeyMissingNever == FALSE

KeyMissing == ~apiKey

\* a fetch the handler awaits itself
NewFetch == [NewCall(1) EXCEPT !.pc = "fetch"]

\* a fetch that is tried again as makeAPICall tries again
DirectFetchRetrying(c, r) == FetchSettled([c EXCEPT !.retries = DefaultRetries], r)

\* await fetch(...) and if (!response.ok) throw: no second attempt
DirectFetch(c, r) ==
    LET c1 == [c EXCEPT !.calls = @ + 1] IN
    IF r.status = NetworkFailure
    THEN [c1 EXCEPT !.pc = "thrown", !.result = Failure(NetworkFailure, "fetch failed")]
    ELSE IF ~Ok(r)
    THEN [c1 EXCEPT !.pc = "thrown", !.result = Failure(r.status, "failed")]
    ELSE [c1 EXCEPT !.pc = "returned", !.result = Value(r.body)]

\* what the handler reads from the provider's answer: the text of the
\* payload for the chat endpoints, which throws when there is none; the
\* body as it is for transcribe and text-to-speech
Produced(op, c) ==
    IF c.pc # "returned" THEN None
    ELSE IF UsesGateway(op) THEN Content(c.result.body)
    ELSE Some(c.result.body)

GenResponse(st) == [status |-> st]
NoResponse == GenResponse(0)

\* req.body.voice: left out, or a name
NoVoice == "undefined"
RequestedVoices == {NoVoice, "alloy", "nova", "shimmer", "robot", ""}

\* requests to the generation endpoints: blank says the required input (the
\* audio file, dreamText or text) is missing or blank
GenRequests ==
    [op : GenOps, blank : BOOLEAN, user : Users \cup {Guest},
     dreamId : {NoDreamId, 1}, voice : RequestedVoices]

\* const validVoices = [...]
validVoices == {"alloy", "echo", "fable", "onyx", "nova", "shimmer"}

\* a voice that is sent on as the request names it
VoiceAsRequested(voice) == IF voice = NoVoice THEN "alloy" ELSE voice

\* const { voice = 'alloy' } = req.body and
\* validVoices.includes(voice) ? voice : 'alloy'
selectedVoice(voice) ==
    LET given == IF voice = NoVoice THEN "alloy" ELSE voice
    IN  IF given \in validVoices THEN given ELSE "alloy"

NothingSent == [voice |-> NoVoice]

\* the members of the body of the provider request that depend on the
\* request: the voice of text-to-speech
Sent(req) ==
    IF req.op = "text-to-speech" THEN [voice |-> selectedVoice(req.voice)]
    ELSE NothingSent

\* the request arrives: validation, the key check, and the provider call
\* issued
GenRequest(req) ==
    /\ genPc \in {"idle", "responded"}
    /\ imgPc # "running" /\ \A s \in 1..3 : ~InFlight(s)
    /\ req.op # "analyze-dream" => req.user = Guest /\ req.dreamId = NoDreamId
    /\ req.op # "text-to-speech" => req.voice = NoVoice
    /\ genReq' = req
    /\ gwLog' = <<>>
    /\ IF req.blank
       THEN /\ genPc' = "responded"
            /\ genRes' = GenResponse(400)
            /\ gw' = NewCall(0)
            /\ genSent' = NothingSent
       ELSE IF KeyMissing
       THEN /\ genPc' = "responded"
            /\ genRes' = GenResponse(500)
            /\ gw' = NewCall(0)
            /\ genSent' = NothingSent
       ELSE /\ genPc' = "calling"
            /\ genRes' = NoResponse
            /\ genSent' = Sent(req)
            /\ gw' = IF UsesGateway(req.op) THEN NewCall(DefaultRetries) ELSE NewFetch
    /\ UNCHANGED <<imgVars, dbVars>>

\* the provider answers the fetch with r
GenFetch(r) ==
    /\ genPc = "calling"
    /\ gw.pc = "fetch"
    /\ gw' = IF UsesGateway(genReq.op) THEN FetchSettled(gw, r) ELSE DirectFetch(gw, r)
    /\ gwLog' = Append(gwLog, r)
    /\ UNCHANGED <<genVars, imgVars, dbVars>>

\* the backoff timer of makeAPICall fires
GenTimer ==
    /\ genPc = "calling"
    /\ GwTimer
    /\ UNCHANGED <<genVars, imgVars, dbVars>>

\* the awaited call has ended: the handler answers, analyze-dream after
\* saving the analysis
GenRespond ==
    /\ genPc = "calling"
    /\ gw.pc \in {"returned", "thrown"}
    /\ genPc' = "responded"
    /\ LET made == Produced(genReq.op, gw) IN
       IF genReq.op = "analyze-dream"
       THEN /\ FinishAnalysis(genReq.user, genReq.dreamId, made)
            /\ genRes' = GenResponse(done'.status)
       ELSE /\ genRes' = GenResponse(IF made = None THEN 500 ELSE 200)
            /\ UNCHANGED dbVars
    /\ UNCHANGED <<gwVars, genReq, genSent, imgVars>>

\* no generation request has arrived yet
NoneYet == genPc = "idle" /\ imgPc = "idle"

-----------------------------------------------------------------------------
(* Statistics: GET /api/stats and getUserStats                             *)

\* the server clock counts instants; a day has SlotsPerDay of them and a
\* month DaysPerMonth days
SlotsPerDay == 3
DaysPerMonth == 2
MonthsRun == 2
LastInstant == MonthsRun * DaysPerMonth * SlotsPerDay - 1

\* Date.prototype.getDate: the day of the month, from 1
DayOfMonth(t) == ((t \div SlotsPerDay) % DaysPerMonth) + 1

\* the time of day of an instant
TimeOfDay(t) == t % SlotsPerDay

\* new Date(t.setDate(1)): the day of the month becomes 1, the month and
\* the time of day stay
SetDate1(t) == t - (DayOfMonth(t) - 1) * SlotsPerDay

\* prisma.dream.count({ where }): the number of rows where holds of
CountDreams(where) == Cardinality(where)

StatsResponse(u, status, total, month) ==
    [user |-> u, status |-> status, totalDreams |-> total, dreamsThisMonth |-> month]

\* getUserStats(userId) at the instant now
getUserStats(u, now) ==
    LET ofUser == {d \in DOMAIN dreams : dreams[d].userId = u}
        thisMonth == {d \in ofUser : dreams[d].createdAt >= SetDate1(now)}
    IN  StatsResponse(u, 200, CountDreams(ofUser), CountDreams(thisMonth))

\* GET /api/stats: requireAuth, then getUserStats
GetStats(u) ==
    /\ stats' = IF u = Guest THEN StatsResponse(Guest, 401, 0, 0)
                ELSE getUserStats(u, clock)
    /\ UNCHANGED <<clock, dbVars>>

\* createDream at the instant the clock shows: createdAt @default(now())
StatCreate(u) ==
    /\ nextId <= MaxStored
    /\ dreams' = (nextId :> [NewDream(u, DreamData([dreamText |-> Some(TextSea)]), nextId)
                                EXCEPT !.createdAt = clock]) @@ dreams
    /\ nextId' = nextId + 1
    /\ UNCHANGED <<images, analyses, ops, done, qRes, statVars>>

\* time passes
Tick ==
    /\ clock < LastInstant
    /\ clock' = clock + 1
    /\ UNCHANGED <<stats, dbVars>>

-----------------------------------------------------------------------------
(* Initial states and specifications                                       *)

GwIdle ==
    /\ gw = NewCall(0)
    /\ gwLog = <<>>

ImgIdle ==
    /\ imgPc = "idle"
    /\ imgReq = [story |-> <<>>, tone |-> "whimsical"]
    /\ scene = [s \in 1..3 |-> NewCall(0)]
    /\ settled = [s \in 1..3 |-> Pending]
    /\ imgRes = HttpResponse(0, NoImages)

SegIdle ==
    /\ story = <<>>
    /\ segments = NoSegments

RateIdle ==
    /\ hitsGeneral = [k \in Callers |-> 0]
    /\ hitsStory = [k \in Callers |-> 0]
    /\ admitted = [k \in Callers |-> 0]
    /\ rateRes = NoRate

NoQuery == QueryResult(Guest, EmptyObj, 0, <<>>, 0, FALSE)

StoreEmpty ==
    /\ dreams = <<>>
    /\ images = [d \in 1..MaxDreams |-> <<>>]
    /\ analyses = {}
    /\ nextId = 1

DbIdle ==
    /\ ops = [o \in OpIds |-> IdleOp]
    /\ done = Done("none", 0)
    /\ qRes = NoQuery

GenIdle ==
    /\ genPc = "idle"
    /\ genReq = [op |-> "none", blank |-> TRUE, user |-> Guest, dreamId |-> 0,
                 voice |-> NoVoice]
    /\ genRes = NoResponse
    /\ genSent = NothingSent

NoStats == StatsResponse(Guest, 0, 0, 0)

StatIdle ==
    /\ clock = 0
    /\ stats = NoStats

Idle ==
    /\ GwIdle /\ apiKey = TRUE /\ ImgIdle /\ SegIdle /\ RateIdle /\ StoreEmpty /\ DbIdle
    /\ GenIdle /\ StatIdle

InitGateway == Idle

NextGateway ==
    /\ \/ \E n \in 1..MaxRetries : GwCall(n)
       \/ \E r \in ProviderResponses : GwFetch(r)
       \/ GwTimer
    /\ UNCHANGED <<imgVars, segVars, rateVars, dbVars, genVars, statVars>>

SpecGateway == InitGateway /\ [][NextGateway]_vars

InitImages ==
    /\ GwIdle /\ apiKey \in BOOLEAN /\ ImgIdle /\ SegIdle /\ RateIdle
    /\ StoreEmpty /\ DbIdle /\ GenIdle /\ StatIdle

NextImages ==
    /\ \/ \E body \in ImgBodies : ImgRequest(body)
       \/ \E s \in 1..3, r \in ImageResponses : SceneFetch(s, r)
       \/ \E s \in 1..3 : SceneTimer(s)
    /\ UNCHANGED <<gwVars, segVars, rateVars, dbVars, genVars, statVars>>

SpecImages == InitImages /\ [][NextImages]_vars

InitSegment == Idle

NextSegment ==
    /\ \/ TypeSentence
       \/ \E ch \in Alphabet : TypeChar(ch)
       \/ Segment
    /\ UNCHANGED <<gwVars, imgVars, rateVars, dbVars, genVars, statVars>>

SpecSegment == InitSegment /\ [][NextSegment]_vars

InitRate == Idle

NextRate ==
    /\ \/ \E k \in Callers, route \in Routes : RateRequest(k, route)
       \/ GeneralWindowEnds
       \/ StoryWindowEnds
    /\ UNCHANGED <<gwVars, imgVars, segVars, dbVars, genVars, statVars>>

SpecRate == InitRate /\ [][NextRate]_vars

InitQuery ==
    /\ GwIdle /\ apiKey = TRUE /\ ImgIdle /\ SegIdle /\ RateIdle /\ DbIdle
    /\ GenIdle /\ StatIdle
    /\ analyses = {}
    /\ \E n \in 0..MaxStored : \E made \in [1..n -> StoredDreams] :
          /\ dreams = [d \in 1..n |-> NewDream(made[d][1], made[d][2], d)]
          /\ images = [d \in 1..MaxStored |->
                          IF d <= n THEN ImageRows(made[d][2].images) ELSE <<>>]
          /\ nextId = n + 1

\* a query leaves the store as it is, so one query is made on each store
NextQuery ==
    /\ qRes = NoQuery
    /\ \E cred \in Credentials, firebase \in BOOLEAN, found \in BOOLEAN,
          u \in Users, query \in Queries :
            ListDreams(cred, firebase, found, u, query)
    /\ UNCHANGED <<gwVars, imgVars, segVars, rateVars, genVars, statVars>>

SpecQuery == InitQuery /\ [][NextQuery]_vars

\* GET /api/dreams asked for a page, sorted or not, with every outcome of
\* verifyToken and attachDbUser
NextList ==
    /\ qRes = NoQuery
    /\ \E cred \in Credentials, firebase \in BOOLEAN, found \in BOOLEAN,
          u \in Users, query \in PageQueries :
            ListDreams(cred, firebase, found, u, query)
    /\ UNCHANGED <<gwVars, imgVars, segVars, rateVars, genVars, statVars>>

SpecList == InitQuery /\ [][NextList]_vars

InitDb == Idle

\* the ids createDream has given out; clients know no other id
Issued == 1..(nextId - 1)

NextDb ==
    /\ \/ \E u \in Users \cup {Guest}, body \in DbCreateBodies : PostDream(u, body)
       \/ \E o \in OpIds, u \in Users, d \in Issued, body \in UpdateBodies :
            PutDream(o, u, d, body)
       \/ \E o \in OpIds : PutDreamUpdate(o)
       \/ \E o \in OpIds, u \in Users, d \in Issued : PatchFavorite(o, u, d)
       \/ \E o \in OpIds : PatchFavoriteUpdate(o)
       \/ \E u \in Users, d \in Issued : DeleteDream(u, d)
       \/ \E u \in Users \cup {Guest}, d \in Issued \cup {NoDreamId},
             content \in {None, Some("text")} : FinishAnalysis(u, d, content)
    /\ UNCHANGED <<gwVars, imgVars, segVars, rateVars, genVars, statVars>>

\* the provider key may be missing; one dream is in the store
InitGenerate ==
    /\ GwIdle /\ apiKey \in BOOLEAN /\ ImgIdle /\ SegIdle /\ RateIdle /\ DbIdle
    /\ GenIdle /\ StatIdle
    /\ analyses = {}
    /\ dreams = <<NewDream("u1", DreamData([dreamText |-> Some(TextSea)]), 1)>>
    /\ images = [d \in 1..MaxDreams |-> <<>>]
    /\ nextId = 2

\* the six generation endpoints serving one request: requests share no
\* state, so each is followed from an idle server
NextGenerate ==
    /\ \/ NoneYet /\ \E req \in GenRequests : GenRequest(req)
       \/ \E r \in ProviderResponses : GenFetch(r)
       \/ GenTimer
       \/ GenRespond
       \/ /\ \/ NoneYet /\ \E body \in ImgBodies : ImgRequest(body)
             \/ \E s \in 1..3, r \in ImageResponses : SceneFetch(s, r)
             \/ \E s \in 1..3 : SceneTimer(s)
          /\ UNCHANGED <<gwVars, genVars, dbVars>>
    /\ UNCHANGED <<segVars, rateVars, statVars>>

SpecGenerate == InitGenerate /\ [][NextGenerate]_vars

InitStats == Idle

NextStats ==
    /\ \/ \E u \in Users \cup {Guest} : GetStats(u)
       \/ \E u \in Users : StatCreate(u)
       \/ Tick
    /\ UNCHANGED <<gwVars, imgVars, segVars, rateVars, genVars>>

SpecStats == InitStats /\ [][NextStats]_vars

SpecDb == InitDb /\ [][NextDb]_vars

\* no request to /api/dreams is being served
AllFree == \A o \in OpIds : Free(o)

\* the dream endpoints with each request answered before the next arrives
NextDbSerial ==
    /\ \/ AllFree /\ \E u \in Users \cup {Guest}, body \in CreateBodies :
                       PostDream(u, body)
       \/ AllFree /\ \E o \in OpIds, u \in Users, d \in Issued,
                          body \in SerialUpdateBodies : PutDream(o, u, d, body)
       \/ \E o \in OpIds : PutDreamUpdate(o)
       \/ AllFree /\ \E o \in OpIds, u \in Users, d \in Issued :
                       PatchFavorite(o, u, d)
       \/ \E o \in OpIds : PatchFavoriteUpdate(o)
       \/ AllFree /\ \E u \in Users, d \in Issued : DeleteDream(u, d)
       \/ AllFree /\ \E u \in Users \cup {Guest}, d \in Issued \cup {NoDreamId},
                       content \in {None, Some("text")} :
                       FinishAnalysis(u, d, content)
    /\ UNCHANGED <<gwVars, imgVars, segVars, rateVars, genVars, statVars>>

SpecDbSerial == InitDb /\ [][NextDbSerial]_vars

\* a store that holds up to MaxStored dreams as POST /api/dreams stores
\* them, one of them analysed once or none
InitDbOnce ==
    /\ GwIdle /\ apiKey = TRUE /\ ImgIdle /\ SegIdle /\ RateIdle /\ DbIdle
    /\ GenIdle /\ StatIdle
    /\ \E n \in 0..MaxStored : \E made \in [1..n -> StoredDreams] :
          /\ dreams = [d \in 1..n |-> NewDream(made[d][1], made[d][2], d)]
          /\ images = [d \in 1..MaxStored |->
                          IF d <= n THEN ImageRows(made[d][2].images) ELSE <<>>]
          /\ nextId = n + 1
          /\ analyses \in {{}} \cup
                 {{[id |-> 1, dreamId |-> d, userId |-> u]} : d \in 1..n, u \in Users}

\* no request has been made yet
Fresh == AllFree /\ done = Done("none", 0)

\* the dream endpoints serving one request on such a store
NextDbOnce ==
    /\ \/ Fresh /\ \E u \in Users \cup {Guest}, body \in CreateBodies :
                     PostDream(u, body)
       \/ Fresh /\ \E o \in OpIds, u \in Users, d \in Issued,
                        body \in SerialUpdateBodies : PutDream(o, u, d, body)
       \/ \E o \in OpIds : PutDreamUpdate(o)
       \/ Fresh /\ \E o \in OpIds, u \in Users, d \in Issued :
                     PatchFavorite(o, u, d)
       \/ \E o \in OpIds : PatchFavoriteUpdate(o)
       \/ Fresh /\ \E u \in Users, d \in Issued : DeleteDream(u, d)
       \/ Fresh /\ \E u \in Users \cup {Guest}, d \in Issued \cup {NoDreamId},
                     content \in {None, Some("text")} :
                     FinishAnalysis(u, d, content)
    /\ UNCHANGED <<gwVars, imgVars, segVars, rateVars, genVars, statVars>>

SpecDbOnce == InitDbOnce /\ [][NextDbOnce]_vars

-----------------------------------------------------------------------------
(* Claims about makeAPICall, checked under SpecGateway                     *)

LastAnswer == gwLog[Len(gwLog)]

\* a client error that is not the rate-limit status
IsClientError(r) == r.status >= 400 /\ r.status < 500 /\ r.status # 429

\* a 5xx answer, a 429 answer or a network failure
IsTransient(r) == r.status >= 500 \/ r.status = 429 \/ r.status = NetworkFailure

\* C2: an answer with a status in 400-499 ends the invocation at once with
\* an error: it is the last answer, and when it answers the first attempt
\* exactly one provider call has been made.
C2_ClientErrorFailsAtOnce ==
    \A k \in 1..Len(gwLog) :
        IsClientError(gwLog[k]) => gw.pc = "thrown" /\ gw.calls = k

\* C3: with retries = n >= 1 the invocation never makes more than n provider
\* calls and makes none after a 2xx answer; a 2xx answer ends it returning
\* that answer's payload; while only 5xx, 429 and network failures have
\* answered and fewer than n calls are made it goes on to retry, and after n
\* such answers it throws an error carrying the last answer's status and
\* message.
C3_BoundedRetry ==
    gw.retries >= 1 =>
        /\ gw.calls = Len(gwLog)
        /\ gw.calls <= gw.retries
        /\ \A k \in 1..(Len(gwLog) - 1) : ~Ok(gwLog[k])
        /\ gw.pc = "returned" <=> (gwLog # <<>> /\ Ok(LastAnswer))
        /\ gw.pc = "returned" => gw.result = Value(LastAnswer.body)
        /\ (gwLog # <<>> /\ \A k \in 1..Len(gwLog) : IsTransient(gwLog[k])) =>
              IF Len(gwLog) < gw.retries
              THEN gw.pc \in {"sleep", "fetch"}
              ELSE /\ gw.pc = "thrown"
                   /\ gw.result.kind = "error"
                   /\ gw.result.status = LastAnswer.status
                   /\ LastAnswer.body # NoMessage => gw.result.body = LastAnswer.body

\* answers 500, 500, 200 with retries = 3: returned after exactly 3 calls
C3_Witness ==
    /\ gw.retries = 3
    /\ gw.pc = "returned"
    /\ gw.calls = 3
    /\ Len(gwLog) = 3
    /\ gwLog[1].status = 500 /\ gwLog[2].status = 500 /\ gwLog[3].status = 200
    /\ gw.result = Value(gwLog[3].body)

\* the delay after failed attempt j - 1 (0-indexed), in milliseconds
ExpectedWait(j) ==
    CASE j = 1 -> 1000
      [] j = 2 -> 2000
      [] j = 3 -> 4000
      [] j = 4 -> 8000
      [] OTHER -> 10000

\* C4: the delays slept are 1000, 2000, 4000, 8000, 10000, 10000, ... ms in
\* this order, one after each failed attempt that is followed by another
\* attempt: none before the first attempt, none after the final one.
C4_Backoff ==
    /\ \A j \in 1..Len(gw.waits) : gw.waits[j] = ExpectedWait(j)
    /\ gw.calls = 0 => gw.waits = <<>>
    /\ gw.pc = "fetch" => Len(gw.waits) = gw.calls
    /\ gw.pc = "sleep" => Len(gw.waits) = gw.calls
    /\ (gw.pc \in {"returned", "thrown"} /\ gw.calls > 0) =>
          Len(gw.waits) = gw.calls - 1

\* six failed attempts of both kinds: the cap of 10000 ms is reached and no
\* delay follows the final attempt
C4_Witness ==
    /\ gw.pc = "thrown"
    /\ gw.calls = 6
    /\ gw.waits = <<1000, 2000, 4000, 8000, 10000>>
    /\ \E k \in 1..Len(gwLog) : gwLog[k].status = NetworkFailure
    /\ \E k \in 1..Len(gwLog) : gwLog[k].status = 500
    /\ \E k \in 1..Len(gwLog) : gwLog[k].status = 429

-----------------------------------------------------------------------------
(* Claims about POST /api/generate-images, checked under SpecImages        *)

SceneLabel(s) == <<"Scene 1", "Scene 2", "Scene 3">>[s]

\* the provider call of scene s ended with an image url
SceneSucceeded(s) ==
    scene[s].pc = "returned" /\ DataUrls(scene[s].result.body) # <<>>

\* C1: the answer to a request that passed validation and the key check is
\* 200 with exactly 3 scene results labelled Scene 1, Scene 2, Scene 3 in
\* this order; each result is decided by its own scene's provider call
\* alone: a failed scene has a null url and error true, a succeeding scene
\* its url, label, description and the prompt that was sent.
C1_ThreeSceneResults ==
    (imgPc = "responded" /\ ~Blank(imgReq.story) /\ apiKey) =>
        /\ imgRes.status = 200
        /\ DOMAIN imgRes.images = 1..3
        /\ \A s \in 1..3 :
              LET e == imgRes.images[s]
                  sc == Scenes(imgReq)[s]
              IN  /\ e.scene = SceneLabel(s)
                  /\ e.description = sc.description
                  /\ IF SceneSucceeded(s)
                     THEN /\ e.url # Null
                          /\ e.url = DataUrls(scene[s].result.body)[1]
                          /\ e.error = FALSE
                          /\ e.prompt = sc.prompt
                     ELSE /\ e.url = Null
                          /\ e.error = TRUE

\* exactly one of the three provider calls failed: 2 urls and 1 error entry
C1_Witness ==
    /\ imgPc = "responded"
    /\ imgRes.status = 200
    /\ Cardinality({s \in 1..3 : ~SceneSucceeded(s)}) = 1
    /\ Cardinality({s \in 1..3 : imgRes.images[s].url # Null}) = 2
    /\ Cardinality({s \in 1..3 : imgRes.images[s].error}) = 1

\* C5: whenever the answer of a generate-images request has been sent, none
\* of its three scene requests is still in flight (fetching or backing off).
C5_FanInBarrier ==
    imgPc = "responded" => \A s \in 1..3 : ~InFlight(s)

\* scene 1 failed on its first provider call, scene 2 succeeded on its
\* third: the answer was sent after both
C5_Witness ==
    /\ imgPc = "responded"
    /\ imgRes.status = 200
    /\ scene[1].calls = 1 /\ imgRes.images[1].error
    /\ scene[2].calls = 3 /\ ~imgRes.images[2].error

-----------------------------------------------------------------------------
(* Claims about extractStorySegments, checked under SpecSegment            *)

\* the sentences of a text: each maximal run of terminal punctuation that has
\* a non-terminal character somewhere before it ends one
SentenceCount(s) ==
    Cardinality({k \in 1..Len(s) :
        /\ IsTerminal(s[k])
        /\ k = Len(s) \/ ~IsTerminal(s[k + 1])
        /\ \E j \in 1..(k - 1) : ~IsTerminal(s[j])})

\* elements a..b of a sequence
Part(seq, a, b) == [j \in 1..(b - a + 1) |-> seq[a + j - 1]]

\* C9: for a story of n >= 3 sentences and k = floor(n/3), beginning is
\* sentences 1..k, middle sentences k+1..2k and end sentences 2k+1..n, each
\* joined by single spaces and trimmed: consecutive ranges that cover
\* 1..n once.
C9_ThreeWaySplit ==
    LET sent == MatchSentences(story, 1)
        n == Len(sent)
        k == n \div 3
    IN  (segments # NoSegments /\ n >= 3) =>
            /\ n = SentenceCount(story)
            /\ k >= 1 /\ 2 * k <= n
            /\ segments.beginning = Trim(Join(Part(sent, 1, k)))
            /\ segments.middle = Trim(Join(Part(sent, k + 1, 2 * k)))
            /\ segments.ending = Trim(Join(Part(sent, 2 * k + 1, n)))

\* ten sentences: 3, 3 and 4
C9_Witness ==
    /\ segments # NoSegments
    /\ Len(story) = 20 /\ Count(story, "b") = 10
    /\ Count(segments.beginning, "b") = 3
    /\ Count(segments.middle, "b") = 3
    /\ Count(segments.ending, "b") = 4

\* C10: for a text of 0, 1 or 2 sentences, beginning, middle and end are
\* each the text itself, character for character.
C10_ShortStoryVerbatim ==
    (segments # NoSegments /\ SentenceCount(story) < 3) =>
        /\ segments.beginning = story
        /\ segments.middle = story
        /\ segments.ending = story

\* two sentences, blanks and an unterminated tail
C10_Witness ==
    /\ segments # NoSegments
    /\ SentenceCount(story) = 2
    /\ story[1] = " "
    /\ ~IsTerminal(story[Len(story)])
    /\ segments.beginning = story

\* the text after the last terminal punctuation mark
Fragment(s) ==
    LET marks == {k \in 1..Len(s) : IsTerminal(s[k])}
        last == IF marks = {} THEN 0 ELSE CHOOSE k \in marks : \A j \in marks : j <= k
    IN  SubSeq(s, last + 1, Len(s))

IsSuffix(t, s) == Len(t) <= Len(s) /\ SubSeq(s, Len(s) - Len(t) + 1, Len(s)) = t

\* C11: for a story of at least 3 counted sentences the text after the last
\* terminal mark is not counted as a sentence, the end segment ends with
\* it, and every letter of the story is in one of the three segments.
C11_TrailingFragmentKept ==
    (segments # NoSegments /\ SentenceCount(story) >= 3) =>
        /\ Len(MatchSentences(story, 1)) = SentenceCount(story)
        /\ IsSuffix(Trim(Fragment(story)), segments.ending)
        /\ \A ch \in {"a", "b"} :
              Count(story, ch) = Count(segments.beginning, ch)
                                 + Count(segments.middle, ch)
                                 + Count(segments.ending, ch)

-----------------------------------------------------------------------------
(* Claims about the rate limiters, checked under SpecRate                  *)

\* C6 as stated: of one caller's requests to the story routes in one
\* 60-second window exactly 5 are admitted whatever else the caller sent:
\* a request is rejected only when 5 were admitted before it, and then with
\* 429 and retryAfter <= 60.
C6_AsStated ==
    rateRes.route \in StoryRoutes =>
        /\ admitted[rateRes.key] <= 5
        /\ rateRes.status = 429 =>
              admitted[rateRes.key] = 5 /\ rateRes.retryAfter <= 60

\* C6 amended: of one caller's requests to /api/generate-title and
\* /api/generate-story that generalLimiter lets through, the first 5 of a
\* storyLimiter window are admitted and each later one is rejected with 429
\* and retryAfter 60; a request that generalLimiter rejects (more than 100
\* in its window) is answered 429 with retryAfter 900.
C6_StoryAdmission ==
    /\ \A k \in Callers : admitted[k] = Min(hitsStory[k], 5)
    /\ rateRes.route \in StoryRoutes =>
          LET k == rateRes.key IN
          IF hitsGeneral[k] > 100
          THEN /\ rateRes.by = "generalLimiter"
               /\ rateRes.status = 429
               /\ rateRes.retryAfter = 900
          ELSE /\ rateRes.by # "generalLimiter"
               /\ rateRes.status = 429 <=> hitsStory[k] > 5
               /\ rateRes.status = 429 => rateRes.retryAfter = 60
               /\ rateRes.status # 429 => rateRes.status = 200 /\ rateRes.by = "handler"

\* the sixth story request of a window, after titles and stories, is rejected
C6_Witness ==
    /\ rateRes.route = "generate-story"
    /\ rateRes.status = 429
    /\ rateRes.retryAfter = 60
    /\ hitsStory[rateRes.key] = 6
    /\ admitted[rateRes.key] = 5
    /\ hitsGeneral[rateRes.key] = 6


-----------------------------------------------------------------------------
(* Claims about the dream store, checked under SpecDb                      *)

\* dream d exists and belongs to somebody other than u
NotOwner(u, d) == d \in DOMAIN dreams /\ dreams[d].userId # u

AnalysesOf(rows, d) == {a \in rows : a.dreamId = d}

\* the step leaves the row of d, its images and its analyses as they were
Untouched(d) ==
    /\ d \in DOMAIN dreams'
    /\ dreams'[d] = dreams[d]
    /\ images'[d] = images[d]
    /\ AnalysesOf(analyses', d) = AnalysesOf(analyses, d)

\* the step is the first database call of a PUT, PATCH or DELETE of dream d
\* by user u
Begins(u, d) ==
    \/ \E o \in OpIds, body \in UpdateBodies : PutDream(o, u, d, body)
    \/ \E o \in OpIds : PatchFavorite(o, u, d)
    \/ DeleteDream(u, d)

\* the step is the second database call of such a request
GoesOn(u, d) ==
    \E o \in OpIds :
        /\ ops[o].user = u
        /\ ops[o].dream = d
        /\ PutDreamUpdate(o) \/ PatchFavoriteUpdate(o)

\* the step leaves a request in flight that was not in flight before
StillInFlight == \E o \in OpIds : Free(o) /\ ops'[o].pc # "idle"

\* C7: every step of an update, favorite toggle or delete of a dream by a
\* user who does not own it leaves the dream, its images and its analyses
\* as they were, and the request is answered with an error.
C7_OwnerScopedMutation ==
    [][\A u \in Users, d \in 1..MaxDreams :
          (NotOwner(u, d) /\ (Begins(u, d) \/ GoesOn(u, d))) =>
              /\ Untouched(d)
              /\ StillInFlight \/ done'.status >= 400]_vars


\* C23: every favorite toggle of the owner that completes, however it is
\* interleaved with other requests, negates the isFavorite the dream has at
\* that moment and leaves its other columns alone, so that n completed
\* toggles leave the initial value flipped n times.
C23_ToggleFlips ==
    [][\A o \in OpIds :
          (/\ ops[o].pc = "toggle"
           /\ PatchFavoriteUpdate(o)
           /\ done' = Done("toggle", 200)) =>
              LET d == ops[o].dream IN
              /\ dreams'[d].isFavorite = ~dreams[d].isFavorite
              /\ \A k \in DOMAIN dreams[d] \ {"isFavorite"} :
                    dreams'[d][k] = dreams[d][k]]_vars

\* C24: every stored analysis belongs to a dream that exists and its
\* userId is that dream's userId: no analyze-dream request naming another
\* user's dream stores an analysis for it.
C24_AnalysisOwner ==
    \A a \in analyses :
        /\ a.dreamId \in DOMAIN dreams
        /\ a.userId = dreams[a.dreamId].userId

\* C25: when an owner's update that supplies images completes among
\* other updates of the dream, the stored images are the images one update
\* supplied, not those of several; and an owner's update that Prisma will
\* refuse, and so ends in an error, leaves the stored images as they were.
C25_ImagesOfOneUpdate ==
    [][/\ \A o \in OpIds :
             (/\ ops[o].pc = "update"
              /\ Has(ops[o].updates, "images")
              /\ PutDreamUpdate(o)
              /\ done' = Done("update", 200)) =>
                 \E body \in UpdateBodies :
                    /\ Has(body, "images")
                    /\ images'[ops[o].dream] = ImageRows(body.images)
       /\ \A o \in OpIds, u \in Users, d \in DOMAIN dreams, body \in UpdateBodies :
             (/\ Owned(d, u)
              /\ Has(body, "images")
              /\ ~UpdateValid(Updates(body))
              /\ PutDream(o, u, d, body)) => images'[d] = images[d]]_vars

-----------------------------------------------------------------------------
(* Claims about the dream query, checked under SpecQuery and SpecList      *)

Range(seq) == {seq[k] : k \in DOMAIN seq}

\* the row passes every filter the query string supplies
PassesAll(row, query) ==
    /\ GivenText(query, "search") =>
          \E text \in SearchedTexts(row) : Contains(text, query.search)
    /\ GivenText(query, "tags") => Range(Split(query.tags)) \cap row.tags # {}
    /\ Given(query, "mood") => row.mood = Some(query.mood)
    /\ (Has(query, "favoritesOnly") /\ query.favoritesOnly = "true") => row.isFavorite
    /\ (Given(query, "startDate") /\ ParseDate(query.startDate) # None) =>
          ParseDate(query.startDate)[1] <= row.date
    /\ (Given(query, "endDate") /\ ParseDate(query.endDate) # None) =>
          row.date <= ParseDate(query.endDate)[1]

\* C8: a query that is answered, by a user, on the default page returns
\* exactly the user's dreams that pass every supplied filter: search, tags,
\* mood, favoritesOnly, startDate <= date and date <= endDate.
C8_FiltersAnded ==
    (qRes.status = 200 /\ qRes.user \in Users /\ qRes.query \in FilterQueries) =>
        Range(qRes.dreams) =
            {d \in DOMAIN dreams :
                dreams[d].userId = qRes.user /\ PassesAll(dreams[d], qRes.query)}

\* the page and the size a query string asks for
PageOf(query) == IF Has(query, "page") THEN parseInt(query.page) ELSE Some(1)
SizeOf(query) == IF Has(query, "limit") THEN parseInt(query.limit) ELSE Some(20)

\* the user's dreams that the query's filters let through
Matches(u, query) == Matching(Where(u, Options(query)))

\* the query string names a sort field that is a column, or none
SortRecognized(query) == Has(query, "orderBy") => query.orderBy \in SortFields

\* C18: a query of page p >= 1 and size s >= 1 by a user, with a sort
\* field that is a column, is answered with the items from offset (p-1)*s
\* of the matching dreams in the requested order, at most s of them, with
\* total the count of all matching dreams and hasMore exactly when
\* offset + s < total.
C18_Pagination ==
    \A p, s \in 1..(MaxStored + 1) :
        (/\ qRes.user \in Users
         /\ qRes.query \in PageQueries
         /\ PageOf(qRes.query) = Some(p) /\ SizeOf(qRes.query) = Some(s)
         /\ SortRecognized(qRes.query)) =>
            LET offset == (p - 1) * s
                all == Matches(qRes.user, qRes.query)
                o == Options(qRes.query)
            IN  /\ qRes.status = 200
                /\ qRes.total = Cardinality(all)
                /\ Len(qRes.dreams) <= s
                /\ \E seq \in Sorted(all, o.orderBy, o.order) :
                      /\ Len(qRes.dreams) = Min(s, Len(seq) - Min(offset, Len(seq)))
                      /\ \A k \in DOMAIN qRes.dreams : qRes.dreams[k] = seq[offset + k]
                /\ qRes.hasMore <=> offset + s < qRes.total

\* the second page of size 1 of two matching dreams
C18_Witness ==
    /\ qRes.status = 200
    /\ qRes.user \in Users
    /\ Has(qRes.query, "page") /\ qRes.query.page = "2"
    /\ Has(qRes.query, "limit") /\ qRes.query.limit = "1"
    /\ qRes.total = 2
    /\ Len(qRes.dreams) = 1
    /\ ~qRes.hasMore

\* C19: a query by a user whose sort field is not a column of Dream is
\* answered without an error, with the dreams sorted by createdAt.
C19_SortFallback ==
    (/\ qRes.user \in Users
     /\ qRes.query \in PageQueries
     /\ ~SortRecognized(qRes.query)
     /\ PageOf(qRes.query) = Some(1) /\ SizeOf(qRes.query) = Some(20)) =>
        /\ qRes.status = 200
        /\ \E seq \in Sorted(Matches(qRes.user, qRes.query), "createdAt",
                               Options(qRes.query).order) : qRes.dreams = seq

\* C20: a query that comes with no credential, or that passes verifyToken
\* and has no database user attached, is answered 200 with no dreams,
\* total 0 and hasMore false, whatever the query string and the store.
C20_NoOwnerEmptyPage ==
    [][\A cred \in Credentials, firebase \in BOOLEAN, found \in BOOLEAN, u \in Users :
          (/\ \/ cred = "none"
              \/ /\ verifyToken(cred, firebase, u) # Unauthorized
                 /\ attachDbUser(verifyToken(cred, firebase, u), found) = Guest
           /\ ListDreams(cred, firebase, found, u, qRes'.query)) =>
              /\ qRes' = QueryResult(Guest, qRes'.query, 200, <<>>, 0, FALSE)
              /\ UNCHANGED storeVars]_vars

\* a guest's query with an unknown sort field on a store that holds dreams
\* is answered with the empty page
C20_Witness ==
    /\ qRes.user = Guest
    /\ qRes.status = 200
    /\ Has(qRes.query, "orderBy") /\ qRes.query.orderBy = "sortKey"
    /\ qRes.dreams = <<>> /\ qRes.total = 0 /\ ~qRes.hasMore
    /\ DOMAIN dreams # {}

-----------------------------------------------------------------------------
(* Claims about analyze-dream, checked under SpecDbOnce                    *)

\* the step ends an analyze-dream run of user u with dream id d
AnalysisEnds(u, d) == \E content \in {None, Some("text")} : FinishAnalysis(u, d, content)

-----------------------------------------------------------------------------
(* Claims about single requests to the dream store, checked under          *)
(* SpecDbSerial and SpecDbOnce                                             *)

\* the step answers a PUT of dream d whose updates are upd with success
UpdateSucceeds(d, upd) ==
    /\ done' = Done("update", 200)
    /\ \/ \E o \in OpIds, u \in Users, body \in SerialUpdateBodies :
             Updates(body) = upd /\ PutDream(o, u, d, body) /\ ~StillInFlight
       \/ \E o \in OpIds :
             ops[o].dream = d /\ ops[o].updates = upd /\ PutDreamUpdate(o)

\* C12: when an update that supplies images succeeds, the dream's images
\* are the supplied ones and no others; when an update that supplies no
\* images succeeds, the dream's images are what they were.
C12_ImagesReplaced ==
    [][\A d \in 1..MaxDreams, body \in SerialUpdateBodies :
          UpdateSucceeds(d, Updates(body)) =>
              IF Has(body, "images")
              THEN images'[d] = ImageRows(body.images)
              ELSE images'[d] = images[d]]_vars


\* C13: every stored dream's lucidity is null or an integer from 1 to 5,
\* whatever creates and updates were made.
C13_LucidityInRange ==
    \A d \in DOMAIN dreams :
        dreams[d].lucidity = None \/ dreams[d].lucidity[1] \in 1..5

\* the value a member of a request body has as a column of the dream row
AsStored(body, k) ==
    IF k = "dreamText" THEN body[k][1]
    ELSE IF k = "date" THEN ParseDate(body[k])[1]
    ELSE body[k]

\* the row is the old row with exactly the members of body written over it
OnlyWritten(d, body) ==
    \A k \in DOMAIN dreams[d] :
        dreams'[d][k] = IF Has(body, k) THEN AsStored(body, k) ELSE dreams[d][k]

\* C16: when an update succeeds, every column the request body supplies
\* has the supplied value (null when null was supplied) and every column the
\* body does not supply has the value it had.
C16_PartialUpdate ==
    [][\A d \in 1..MaxDreams :
          /\ \A body \in SerialUpdateBodies :
                (/\ done' = Done("update", 200)
                 /\ \E o \in OpIds, u \in Users : PutDream(o, u, d, body)
                 /\ ~StillInFlight) => OnlyWritten(d, body)
          /\ \A o \in OpIds :
                (/\ done' = Done("update", 200)
                 /\ ops[o].dream = d
                 /\ PutDreamUpdate(o)) => OnlyWritten(d, ops[o].updates)]_vars

\* the row is the old row with exactly the updatable members of body
\* written over it
OnlyUpdatableWritten(d, body) ==
    \A k \in DOMAIN dreams[d] :
        dreams'[d][k] = IF k \in UpdatableKeys /\ Has(body, k)
                        THEN AsStored(body, k)
                        ELSE dreams[d][k]

\* C16 (amended): when an update succeeds, each of title, dreamText, story,
\* tags, mood and lucidity that the request body supplies has the supplied
\* value (null when null was supplied), and every other column, whether the
\* body names it or not, has the value it had.
C16_UpdatableFields ==
    [][\A d \in 1..MaxDreams :
          /\ \A body \in SerialUpdateBodies :
                (/\ done' = Done("update", 200)
                 /\ \E o \in OpIds, u \in Users : PutDream(o, u, d, body)
                 /\ ~StillInFlight) => OnlyUpdatableWritten(d, body)
          /\ \A o \in OpIds :
                (/\ done' = Done("update", 200)
                 /\ ops[o].dream = d
                 /\ PutDreamUpdate(o)) => OnlyUpdatableWritten(d, ops[o].updates)]_vars

\* an update has set the title of a dream created with a title to null and
\* left its lucidity as it was
C16_Witness ==
    /\ done = Done("update", 200)
    /\ 1 \in DOMAIN dreams
    /\ dreams[1].title = None
    /\ dreams[1].lucidity = Some(3)
    /\ dreams[1].mood = Some("happy")

\* one of the images is a failed scene: its url is null
HasFailedScene(imgs) == \E k \in 1..Len(imgs) : imgs[k].url = Null

\* C21: a create by a user, or an update by the owner, whose images include
\* a failed scene (url null) is answered with success and the dream's
\* stored images are the supplied ones, the failed scene with its null url.
C21_FailedSceneStored ==
    [][/\ \A u \in Users, body \in CreateBodies :
             (/\ Has(body, "images") /\ HasFailedScene(body.images)
              /\ PostDream(u, body)) =>
                 /\ done' = Done("create", 200)
                 /\ images'[nextId] = ImageRows(body.images)
       /\ \A o \in OpIds :
             (/\ Has(ops[o].updates, "images")
              /\ HasFailedScene(ops[o].updates.images)
              /\ Owned(ops[o].dream, ops[o].user)
              /\ PutDreamUpdate(o)) =>
                 /\ done' = Done("update", 200)
                 /\ images'[ops[o].dream] = ImageRows(ops[o].updates.images)]_vars

-----------------------------------------------------------------------------
(* Claims about the statistics, checked under SpecStats                    *)

\* 00:00 of the first day of the month of the instant
MonthStart(t) == t - TimeOfDay(t) - (DayOfMonth(t) - 1) * SlotsPerDay

\* C17: whenever stats is called, dreamsThisMonth is the number of the
\* caller's dreams created at or after 00:00 of the first day of the month
\* the server clock shows, whatever the time of day of the call.
C17_DreamsThisMonth ==
    [][\A u \in Users :
          GetStats(u) =>
              stats'.dreamsThisMonth =
                  Cardinality({d \in DOMAIN dreams :
                                  /\ dreams[d].userId = u
                                  /\ dreams[d].createdAt >= MonthStart(clock)})]_vars

-----------------------------------------------------------------------------
(* Claims about the generation endpoints, checked under SpecGenerate       *)

\* C14: without the provider key no generation endpoint makes a provider
\* call, and each request to transcribe, generate-title, generate-story,
\* analyze-dream, generate-images or text-to-speech is answered at once
\* with an error status.
C14_NoKeyNoCall ==
    ~apiKey =>
        /\ gw.calls = 0 /\ gwLog = <<>>
        /\ \A s \in 1..3 : scene[s].calls = 0
        /\ genPc # "calling" /\ imgPc # "running"
        /\ genPc = "responded" => genRes.status >= 400
        /\ imgPc = "responded" => imgRes.status >= 400

\* text-to-speech with a text, and no key: 500
C14_Witness ==
    /\ ~apiKey
    /\ genPc = "responded"
    /\ genReq.op = "text-to-speech"
    /\ ~genReq.blank
    /\ genRes = GenResponse(500)
    /\ gw.calls = 0

\* the request served is a text-to-speech request with a text, and the key
\* is configured
SpeechAsked ==
    /\ genReq.op = "text-to-speech"
    /\ ~genReq.blank
    /\ apiKey

\* C22: a text-to-speech request with a text makes one provider call and
\* no more, is answered when that call has ended, with an error when the
\* call failed, and the voice it sends is the requested voice when that is
\* one of alloy, echo, fable, onyx, nova, shimmer and alloy otherwise.
C22_SpeechSingleAttempt ==
    SpeechAsked =>
        /\ gw.calls <= 1
        /\ gw.calls = Len(gwLog)
        /\ gw.pc # "sleep"
        /\ gw.calls = 1 => gw.pc \in {"returned", "thrown"}
        /\ genPc = "responded" =>
              /\ gw.calls = 1
              /\ genRes.status = IF Ok(gwLog[1]) THEN 200 ELSE 500
        /\ genSent.voice = IF genReq.voice \in validVoices
                             THEN genReq.voice ELSE "alloy"

\* a request with an unknown voice whose single call failed with a
\* transient status
C22_Witness ==
    /\ SpeechAsked
    /\ genPc = "responded"
    /\ genReq.voice = "robot"
    /\ genSent.voice = "alloy"
    /\ gwLog = <<Response(500, NoMessage)>>
    /\ genRes = GenResponse(500)

=============================================================================
